---- MODULE Spec2Model ----
(***************************************************************************)
(* Model of ssl_transport (src/ssl.cc): the lifecycle of one transport     *)
(* (init / close / destructor) and the framed message channel (send /     *)
(* recv) between two established ends.                                     *)
(* One message is sent per run.                                            *)
(*                                                                         *)
(* Spec      : one transport object driven through init, close and its     *)
(*             destructor, with every outcome of the library calls.        *)
(* SpecChan  : one end sending a framed message, the other end receiving   *)
(*             over a stream that writes and delivers partially.           *)
(* SpecSend  : the sending end alone, with every documented result of the  *)
(*             write call.                                                 *)
(***************************************************************************)
EXTENDS Integers, Sequences, FiniteSets, TLC

VARIABLES
    \* ---- ssl_transport object ----
    alive,      \* FALSE once the destructor has run
    m_ctx,      \* 0 (NULL) or the id of the SSL_CTX it points to
    m_ssl,      \* 0 (NULL) or the id of the SSL it points to
    tcp,        \* state of the m_tcp stream
    nonblock,   \* TRUE once sock_set_blocking(sock, false) has run
    \* ---- the library's objects ----
    nCtx,       \* number of SSL_CTX objects created so far (ids 1..nCtx)
    nSsl,       \* number of SSL objects created so far (ids 1..nSsl)
    ctxFreed,   \* id -> number of SSL_CTX_free calls on it
    sslShut,    \* id -> number of SSL_shutdown calls on it
    sslFreed,   \* id -> number of SSL_free calls on it
    \* ---- observation of the public calls ----
    calls,      \* library/stream calls made by the last public call, in order
    lastOp,     \* the last public call, what it returned, the call before it
    nOps,       \* number of public calls made so far
    \* ---- sending end (ssl_transport::send) ----
    smsg,       \* data() of the message being sent: header followed by body
    spc,        \* "idle", "loop" (inside the while loop) or "done"
    bytes_sent, \* the local of send
    sret,       \* what send returned: "none", an integer
    lastWrite,  \* the last SSL_write of this send: [off, req, res, bytes]
    accepted,   \* the bytes the SSL_write calls of this send have accepted
    nZero,      \* SSL_write calls of this send that accepted 0 bytes
    nBad,       \* SSL_write calls of this send that returned less than -1
    wire,       \* bytes accepted by SSL_write and not yet read by the peer
    peerClosed, \* the sending end has closed the connection
    \* ---- receiving end (ssl_transport::recv) ----
    rmsg,       \* the message object handed to recv: [hdr, body]
    rret,       \* what the last recv returned
    rlog,       \* the SSL_read calls of the last recv: [req, cap, res]
    rprev,      \* the message as it was when the last recv was called
    got,        \* bodies returned by recv calls that reported bytes received
    \* ---- observation of the session the I/O goes through ----
    stray,      \* the last SSL_read/SSL_write issued while not established
    \* ---- transport options ----
    m_opt_host, \* host to connect to: a string, as a sequence of characters
    m_opt_port, \* port to connect to or to listen on
    cfgAtInit,  \* host and port as they were when init was last called
    optArg      \* the last setopt call: [n, opt, value], n counting them

lifeVars == <<alive, m_ctx, m_ssl, tcp, nonblock, nCtx, nSsl, ctxFreed,
              sslShut, sslFreed, calls, lastOp, nOps>>
sendVars == <<smsg, spc, bytes_sent, sret, lastWrite, accepted, nZero, nBad,
              wire, peerClosed>>
recvVars == <<rmsg, rret, rlog, rprev, got>>
optVars == <<m_opt_host, m_opt_port, cfgAtInit, optArg>>
vars == <<lifeVars, sendVars, recvVars, stray, optVars>>

----------------------------------------------------------------------------
(* Bounds *)

MaxOps == 3        \* public calls (init / close) on one transport
MaxBody == 2       \* longest body, and largest byte value
MaxZeroWrites == 1 \* SSL_write calls of one send that accept 0 bytes
MaxBadWrites == 1  \* SSL_write calls of one send returning less than -1
MaxUseOps == 2     \* init / close calls on a transport that sends and receives

NULL == 0

----------------------------------------------------------------------------
(* Transport types (core.h) and the outcomes of the library calls *)

TPT_CLIENT == "TPT_CLIENT"
TPT_SERVER == "TPT_SERVER"
TPT_OTHER == "TPT_OTHER"       \* any value that is neither
Types == {TPT_CLIENT, TPT_SERVER, TPT_OTHER}

\* The first library or stream call of an init that fails ("none": none
\* fails before the handshake), and what the handshake call returns.
Stages == {"none", "ctx", "cert", "key", "match", "ssl",
           "connect", "bind", "accept"}
\* SSL_connect / SSL_accept: 1 success, 0 handshake refused and shut down
\* cleanly, < 0 fatal error.
HandshakeResults == {-1, 0, 1}
\* Besides, each step of the identity load fails if it is in bad, so that
\* several of them can be at fault in one run.
IdentitySteps == {"cert", "key", "match"}
Envs == [fail : Stages \ IdentitySteps, bad : SUBSET IdentitySteps,
         hs : HandshakeResults]

Ok(env, stage) == env.fail # stage /\ stage \notin env.bad

----------------------------------------------------------------------------
(* The transport as a value: the fields of the object together with the    *)
(* library objects it has created, so that init and close are functions.   *)

Ids == 1..MaxOps

Transport == [m_ctx |-> m_ctx, m_ssl |-> m_ssl, tcp |-> tcp,
              nonblock |-> nonblock, nCtx |-> nCtx, nSsl |-> nSsl,
              ctxFreed |-> ctxFreed, sslShut |-> sslShut,
              sslFreed |-> sslFreed]

\* one entry of the call log: the function called and what it returned
\* (pointers: 1 non-NULL, 0 NULL; void functions: 0)
Call(f, r) == [f |-> f, r |-> r]

Result(t, log, ret) == [t |-> t, calls |-> log, ret |-> ret]

LogBadCert == "LOG error: openssl failed to load certificate buffer"
LogBadKey == "LOG error: openssl failed to load key buffer"
LogMismatch == "LOG error: private key does not match public certificate"

\* ssl_load_cert_bufs that installs the key before the certificate
ssl_load_cert_bufs_keyFirst(env) ==
    LET c0 == <<Call("PEM_read_bio_X509", IF Ok(env, "cert") THEN 1 ELSE 0),
                Call("PEM_read_bio_RSAPrivateKey",
                     IF Ok(env, "key") THEN 1 ELSE 0)>>
    IN  IF ~Ok(env, "key")
        THEN [ret |-> -1,
              calls |-> c0 \o <<Call("SSL_CTX_use_RSAPrivateKey", 0),
                                Call(LogBadKey, 0)>>]
        ELSE IF ~Ok(env, "cert")
        THEN [ret |-> -1,
              calls |-> c0 \o <<Call("SSL_CTX_use_RSAPrivateKey", 1),
                                Call("SSL_CTX_use_certificate", 0),
                                Call(LogBadCert, 0)>>]
        ELSE IF ~Ok(env, "match")
        THEN [ret |-> -1,
              calls |-> c0 \o <<Call("SSL_CTX_use_RSAPrivateKey", 1),
                                Call("SSL_CTX_use_certificate", 1),
                                Call("SSL_CTX_check_private_key", 0),
                                Call(LogMismatch, 0)>>]
        ELSE [ret |-> 0,
              calls |-> c0 \o <<Call("SSL_CTX_use_RSAPrivateKey", 1),
                                Call("SSL_CTX_use_certificate", 1),
                                Call("SSL_CTX_check_private_key", 1)>>]

\* ssl_load_cert_bufs: both PEM buffers are decoded, then the certificate
\* is installed, then the key, then the pair is checked; the first step
\* that fails logs its error and returns -1.
ssl_load_cert_bufs(env) ==
    LET c0 == <<Call("PEM_read_bio_X509", IF Ok(env, "cert") THEN 1 ELSE 0),
                Call("PEM_read_bio_RSAPrivateKey",
                     IF Ok(env, "key") THEN 1 ELSE 0)>>
    IN  IF ~Ok(env, "cert")
        THEN [ret |-> -1,
              calls |-> c0 \o <<Call("SSL_CTX_use_certificate", 0),
                                Call(LogBadCert, 0)>>]
        ELSE IF ~Ok(env, "key")
        THEN [ret |-> -1,
              calls |-> c0 \o <<Call("SSL_CTX_use_certificate", 1),
                                Call("SSL_CTX_use_RSAPrivateKey", 0),
                                Call(LogBadKey, 0)>>]
        ELSE IF ~Ok(env, "match")
        THEN [ret |-> -1,
              calls |-> c0 \o <<Call("SSL_CTX_use_certificate", 1),
                                Call("SSL_CTX_use_RSAPrivateKey", 1),
                                Call("SSL_CTX_check_private_key", 0),
                                Call(LogMismatch, 0)>>]
        ELSE [ret |-> 0,
              calls |-> c0 \o <<Call("SSL_CTX_use_certificate", 1),
                                Call("SSL_CTX_use_RSAPrivateKey", 1),
                                Call("SSL_CTX_check_private_key", 1)>>]

\* the tail of init: log the cipher, make the socket non-blocking, dump
\* the peer certificate, return 0
initSuccess(t, log) ==
    Result([t EXCEPT !.nonblock = TRUE],
           log \o <<Call("sock_set_blocking(false)", 0),
                    Call("ssl_dump_certs", 0)>>,
           0)

\* the TPT_CLIENT branch of init
initClient(env, t, log) ==
    IF ~Ok(env, "connect")
    THEN Result(t, log \o <<Call("m_tcp.connect", -1)>>, -1)
    ELSE LET t1 == [t EXCEPT !.tcp = "connected"]
             c1 == log \o <<Call("m_tcp.connect", 0), Call("SSL_set_fd", 1),
                            Call("SSL_connect", env.hs)>>
         IN  IF env.hs < 0
             THEN Result(t1, c1, -1)
             ELSE initSuccess(t1, c1)

\* initServer with the connect-side handshake in place of the accept-side
initServer_connectSide(env, t, log) ==
    IF ~Ok(env, "bind")
    THEN Result(t, log \o <<Call("m_tcp.bind", -1)>>, -1)
    ELSE IF ~Ok(env, "accept")
    THEN Result([t EXCEPT !.tcp = "bound"],
                log \o <<Call("m_tcp.bind", 0), Call("m_tcp.accept", -1)>>, -1)
    ELSE LET t2 == [t EXCEPT !.tcp = "accepted"]
             c2 == log \o <<Call("m_tcp.bind", 0), Call("m_tcp.accept", 0),
                            Call("SSL_set_fd", 1),
                            Call("SSL_connect", env.hs)>>
         IN  IF env.hs < 0
             THEN Result(t2, c2, -1)
             ELSE initSuccess(t2, c2)

\* the TPT_SERVER branch of init
initServer(env, t, log) ==
    IF ~Ok(env, "bind")
    THEN Result(t, log \o <<Call("m_tcp.bind", -1)>>, -1)
    ELSE LET t1 == [t EXCEPT !.tcp = "bound"]
             c1 == log \o <<Call("m_tcp.bind", 0)>>
         IN  IF ~Ok(env, "accept")
             THEN Result(t1, c1 \o <<Call("m_tcp.accept", -1)>>, -1)
             ELSE LET t2 == [t1 EXCEPT !.tcp = "accepted"]
                      c2 == c1 \o <<Call("m_tcp.accept", 0),
                                    Call("SSL_set_fd", 1),
                                    Call("SSL_accept", env.hs)>>
                  IN  IF env.hs < 0
                      THEN Result(t2, c2, -1)
                      ELSE initSuccess(t2, c2)

\* ssl_transport::init(type) on transport t, the library behaving as env
initRun(type, env, t) ==
    LET c0 == <<Call("SSL_library_init", 1)>>
    IN  IF type \notin {TPT_CLIENT, TPT_SERVER}
        THEN Result(t, c0, -1)
        ELSE
        LET method == IF type = TPT_CLIENT THEN "TLSv1_client_method"
                                           ELSE "TLSv1_server_method"
            c1 == c0 \o <<Call(method, 1),
                          Call("SSL_CTX_new", IF Ok(env, "ctx") THEN 1 ELSE 0)>>
        IN  IF ~Ok(env, "ctx")
            THEN Result([t EXCEPT !.m_ctx = NULL], c1, -1)
            ELSE
            LET t1 == [t EXCEPT !.m_ctx = t.nCtx + 1, !.nCtx = t.nCtx + 1]
                ld == ssl_load_cert_bufs(env)
                c2 == c1 \o ld.calls
            IN  IF ld.ret < 0
                THEN Result(t1, c2, -1)
                ELSE
                LET c3 == c2 \o <<Call("SSL_new",
                                       IF Ok(env, "ssl") THEN 1 ELSE 0)>>
                IN  IF ~Ok(env, "ssl")
                    THEN Result([t1 EXCEPT !.m_ssl = NULL], c3, -1)
                    ELSE
                    LET t2 == [t1 EXCEPT !.m_ssl = t.nSsl + 1,
                                         !.nSsl = t.nSsl + 1]
                    IN  IF type = TPT_CLIENT
                        THEN initClient(env, t2, c3)
                        ELSE initServer(env, t2, c3)

\* close() that frees the session and the context but leaves m_ssl and
\* m_ctx pointing to them
closeRun_keepPointers(t) ==
    LET t1 == IF t.m_ssl # NULL
              THEN [t EXCEPT !.sslShut[t.m_ssl] = @ + 1,
                             !.sslFreed[t.m_ssl] = @ + 1]
              ELSE t
        c1 == IF t.m_ssl # NULL
              THEN <<Call("SSL_shutdown", 0), Call("SSL_free", 0)>>
              ELSE <<>>
        t2 == IF t1.m_ctx # NULL
              THEN [t1 EXCEPT !.ctxFreed[t1.m_ctx] = @ + 1]
              ELSE t1
        c2 == IF t1.m_ctx # NULL
              THEN c1 \o <<Call("SSL_CTX_free", 0)>>
              ELSE c1
    IN  Result([t2 EXCEPT !.tcp = "closed", !.nonblock = FALSE],
               c2 \o <<Call("m_tcp.close", 0)>>, 0)

\* close() that frees the context before the session
closeRun_contextFirst(t) ==
    LET t1 == IF t.m_ctx # NULL
              THEN [t EXCEPT !.ctxFreed[t.m_ctx] = @ + 1, !.m_ctx = NULL]
              ELSE t
        c1 == IF t.m_ctx # NULL THEN <<Call("SSL_CTX_free", 0)>> ELSE <<>>
        t2 == IF t1.m_ssl # NULL
              THEN [t1 EXCEPT !.sslShut[t1.m_ssl] = @ + 1,
                              !.sslFreed[t1.m_ssl] = @ + 1,
                              !.m_ssl = NULL]
              ELSE t1
        c2 == IF t1.m_ssl # NULL
              THEN c1 \o <<Call("SSL_shutdown", 0), Call("SSL_free", 0)>>
              ELSE c1
    IN  Result([t2 EXCEPT !.tcp = "closed", !.nonblock = FALSE],
               c2 \o <<Call("m_tcp.close", 0)>>, 0)

\* ssl_transport::close() on transport t
closeRun(t) ==
    LET t1 == IF t.m_ssl # NULL
              THEN [t EXCEPT !.sslShut[t.m_ssl] = @ + 1,
                             !.sslFreed[t.m_ssl] = @ + 1,
                             !.m_ssl = NULL]
              ELSE t
        c1 == IF t.m_ssl # NULL
              THEN <<Call("SSL_shutdown", 0), Call("SSL_free", 0)>>
              ELSE <<>>
        t2 == IF t1.m_ctx # NULL
              THEN [t1 EXCEPT !.ctxFreed[t1.m_ctx] = @ + 1, !.m_ctx = NULL]
              ELSE t1
        c2 == IF t1.m_ctx # NULL
              THEN c1 \o <<Call("SSL_CTX_free", 0)>>
              ELSE c1
    IN  Result([t2 EXCEPT !.tcp = "closed", !.nonblock = FALSE],
               c2 \o <<Call("m_tcp.close", 0)>>, 0)

----------------------------------------------------------------------------
(* Initial states *)

\* ssl_transport::ssl_transport()
\* sock_get_ip(): the textual address of this host
sock_get_ip == <<"1", ".", "2">>

DefaultPort == 443

NoOpt == [n |-> 0, opt |-> "none", value |-> <<>>]

LifeInit ==
    /\ alive = TRUE
    /\ m_opt_host = sock_get_ip
    /\ m_opt_port = DefaultPort
    /\ cfgAtInit = [set |-> FALSE, host |-> sock_get_ip, port |-> DefaultPort]
    /\ optArg = NoOpt
    /\ m_ctx = NULL
    /\ m_ssl = NULL
    /\ tcp = "closed"
    /\ nonblock = FALSE
    /\ nCtx = 0
    /\ nSsl = 0
    /\ ctxFreed = [i \in Ids |-> 0]
    /\ sslShut = [i \in Ids |-> 0]
    /\ sslFreed = [i \in Ids |-> 0]
    /\ calls = <<>>
    /\ lastOp = [op |-> "none", type |-> "-", ret |-> 0, prev |-> "none"]
    /\ nOps = 0

----------------------------------------------------------------------------
(* Public calls on the transport *)

Store(r) ==
    /\ m_ctx' = r.t.m_ctx
    /\ m_ssl' = r.t.m_ssl
    /\ tcp' = r.t.tcp
    /\ nonblock' = r.t.nonblock
    /\ nCtx' = r.t.nCtx
    /\ nSsl' = r.t.nSsl
    /\ ctxFreed' = r.t.ctxFreed
    /\ sslShut' = r.t.sslShut
    /\ sslFreed' = r.t.sslFreed
    /\ calls' = r.calls

init(type) ==
    /\ alive
    /\ nOps < MaxOps
    /\ \E env \in Envs :
          LET r == initRun(type, env, Transport)
          IN  /\ Store(r)
              /\ lastOp' = [op |-> "init", type |-> type, ret |-> r.ret,
                             prev |-> lastOp.op]
    /\ nOps' = nOps + 1
    /\ cfgAtInit' = [set |-> TRUE, host |-> m_opt_host, port |-> m_opt_port]
    /\ UNCHANGED <<alive, sendVars, recvVars, stray, m_opt_host, m_opt_port,
                   optArg>>

close ==
    /\ alive
    /\ nOps < MaxOps
    /\ Store(closeRun(Transport))
    /\ lastOp' = [op |-> "close", type |-> "-", ret |-> 0, prev |-> lastOp.op]
    /\ nOps' = nOps + 1
    /\ UNCHANGED <<alive, sendVars, recvVars, stray, optVars>>

SSL_OPT_HOST == "SSL_OPT_HOST"
SSL_OPT_PORT == "SSL_OPT_PORT"
SSL_OPT_OTHER == "SSL_OPT_OTHER"       \* any other option number
Opts == {SSL_OPT_HOST, SSL_OPT_PORT, SSL_OPT_OTHER}

\* option values a caller passes: strings as sequences of characters
OptValues == {<<"8">>, <<"8", "x">>, <<"x", "8">>, <<"-", "8">>}

Digits == <<"0", "1", "2", "3", "4", "5", "6", "7", "8", "9">>
IsDigit(c) == \E i \in 1..Len(Digits) : Digits[i] = c
DigitVal(c) == (CHOOSE i \in 1..Len(Digits) : Digits[i] = c) - 1

\* the number spelled by the leading digits of str, following acc
RECURSIVE LeadingDigits(_, _)
LeadingDigits(str, acc) ==
    IF str # <<>> /\ IsDigit(Head(str))
    THEN LeadingDigits(Tail(str), 10 * acc + DigitVal(Head(str)))
    ELSE acc

\* atoi(str): leading blanks are skipped, then an optional sign, then the
\* digits up to the first character that is not one; 0 if there are none
RECURSIVE atoi(_)
atoi(str) ==
    IF str = <<>> THEN 0
    ELSE IF Head(str) = " " THEN atoi(Tail(str))
    ELSE IF Head(str) = "-" THEN -LeadingDigits(Tail(str), 0)
    ELSE IF Head(str) = "+" THEN LeadingDigits(Tail(str), 0)
    ELSE LeadingDigits(str, 0)

\* ssl_transport::setopt(opt, value)
setopt(opt, value) ==
    /\ alive
    /\ m_opt_host' = IF opt = SSL_OPT_HOST THEN value ELSE m_opt_host
    /\ m_opt_port' = IF opt = SSL_OPT_PORT THEN atoi(value) ELSE m_opt_port
    /\ optArg' = [n |-> 1 - optArg.n, opt |-> opt, value |-> value]
    /\ UNCHANGED <<lifeVars, sendVars, recvVars, stray, cfgAtInit>>

\* ssl_transport::~ssl_transport(): runs close(), then the object is gone
destroy ==
    /\ alive
    /\ Store(closeRun(Transport))
    /\ lastOp' = [op |-> "destroy", type |-> "-", ret |-> 0,
                   prev |-> lastOp.op]
    /\ alive' = FALSE
    /\ UNCHANGED <<nOps, sendVars, recvVars, stray, optVars>>

----------------------------------------------------------------------------
(* The message buffer (class message, core.h): a fixed-size header whose   *)
(* last byte holds the body length, followed by the body storage.          *)

HeaderLen == 2                 \* message::header_len
Byte == 0..MaxBody             \* byte values
MsgType == 1                   \* header bytes other than the length

Min(a, b) == IF a < b THEN a ELSE b

\* message::body_len(): the body length the header declares
body_len(m) == m.hdr[HeaderLen]

\* message::data(): header and body storage, contiguous
data(m) == m.hdr \o m.body

\* message::data_len(): header length plus declared body length
data_len(m) == HeaderLen + body_len(m)

\* message::resize(n): the body storage gets exactly n bytes (kept bytes
\* keep their value, new ones are zero) and the header declares n
resize(m, n) ==
    [hdr |-> [m.hdr EXCEPT ![HeaderLen] = n],
     body |-> [i \in 1..n |-> IF i <= Len(m.body) THEN m.body[i] ELSE 0]]

\* frame(B): the message whose body is B
frame(B) ==
    [hdr |-> [i \in 1..HeaderLen |-> IF i = HeaderLen THEN Len(B) ELSE MsgType],
     body |-> B]

\* the bodies that are sent: one of every length, all bytes different
Bodies == {[i \in 1..n |-> i] : n \in 0..MaxBody}

\* buf with its first Len(bytes) bytes overwritten by bytes
Overwrite(buf, bytes) ==
    [i \in 1..Len(buf) |-> IF i <= Len(bytes) THEN bytes[i] ELSE buf[i]]

----------------------------------------------------------------------------
(* The encrypted stream between the two ends *)

\* What recv returns: one of the two transport constants of core.h, or the
\* plain integer the body read returned.
TPT_CLOSE == [kind |-> "TPT_CLOSE", n |-> 0]
TPT_EMPTY == [kind |-> "TPT_EMPTY", n |-> 0]
IntRet(n) == [kind |-> "int", n |-> n]
NoRet == [kind |-> "none", n |-> 0]

\* SSL_read(ssl, buf, n) with w pending on the stream.  The oracle o picks
\* the outcome: 0 an error / nothing readable now (-1); k > 0 the stream
\* hands over at most k bytes.  With nothing pending the read reports the
\* peer's close (0) or fails (-1); a read of 0 bytes returns 0.
SSL_read(n, w, o, closed) ==
    IF o = 0 THEN -1
    ELSE IF n = 0 THEN 0
    ELSE IF Len(w) = 0 THEN (IF closed THEN 0 ELSE -1)
    ELSE Min(o, Min(n, Len(w)))

ReadOracles == 0..MaxBody

\* recv that treats a failed header read like a closed connection
recvRun_errorIsClose(m, w, closed, o1, o2) ==
    LET bytes1 == SSL_read(HeaderLen, w, o1, closed)
        rd1 == [what |-> "header", req |-> HeaderLen, cap |-> Len(m.hdr),
                res |-> bytes1]
    IN  IF bytes1 <= 0
        THEN [msg |-> m, wire |-> w, ret |-> TPT_CLOSE, log |-> <<rd1>>]
        ELSE
        LET m1 == [m EXCEPT !.hdr = Overwrite(m.hdr, SubSeq(w, 1, bytes1))]
            w1 == SubSeq(w, bytes1 + 1, Len(w))
            m2 == resize(m1, body_len(m1))
            bytes2 == SSL_read(body_len(m2), w1, o2, closed)
            rd2 == [what |-> "body", req |-> body_len(m2),
                    cap |-> Len(m2.body), res |-> bytes2]
            m3 == IF bytes2 > 0
                  THEN [m2 EXCEPT !.body =
                            Overwrite(m2.body, SubSeq(w1, 1, bytes2))]
                  ELSE m2
            w2 == IF bytes2 > 0 THEN SubSeq(w1, bytes2 + 1, Len(w1)) ELSE w1
        IN  [msg |-> m3, wire |-> w2, ret |-> IntRet(bytes2),
             log |-> <<rd1, rd2>>]

\* recv that reads the body into the buffer as it is, without resizing it
recvRun_noResize(m, w, closed, o1, o2) ==
    LET bytes1 == SSL_read(HeaderLen, w, o1, closed)
        rd1 == [what |-> "header", req |-> HeaderLen, cap |-> Len(m.hdr),
                res |-> bytes1]
    IN  IF bytes1 = 0
        THEN [msg |-> m, wire |-> w, ret |-> TPT_CLOSE, log |-> <<rd1>>]
        ELSE IF bytes1 < 0
        THEN [msg |-> m, wire |-> w, ret |-> TPT_EMPTY, log |-> <<rd1>>]
        ELSE
        LET m1 == [m EXCEPT !.hdr = Overwrite(m.hdr, SubSeq(w, 1, bytes1))]
            w1 == SubSeq(w, bytes1 + 1, Len(w))
            bytes2 == SSL_read(body_len(m1), w1, o2, closed)
            rd2 == [what |-> "body", req |-> body_len(m1),
                    cap |-> Len(m1.body), res |-> bytes2]
            got2 == IF bytes2 > 0 THEN Min(bytes2, Len(m1.body)) ELSE 0
            m3 == [m1 EXCEPT !.body =
                       Overwrite(m1.body, SubSeq(w1, 1, got2))]
            w2 == IF bytes2 > 0 THEN SubSeq(w1, bytes2 + 1, Len(w1)) ELSE w1
        IN  [msg |-> m3, wire |-> w2, ret |-> IntRet(bytes2),
             log |-> <<rd1, rd2>>]

\* ssl_transport::recv(msg): msg is m, w is pending on the stream, o1 and
\* o2 decide the two reads
recvRun(m, w, closed, o1, o2) ==
    LET bytes1 == SSL_read(HeaderLen, w, o1, closed)
        rd1 == [what |-> "header", req |-> HeaderLen, cap |-> Len(m.hdr),
                res |-> bytes1]
    IN  IF bytes1 = 0
        THEN [msg |-> m, wire |-> w, ret |-> TPT_CLOSE, log |-> <<rd1>>]
        ELSE IF bytes1 < 0
        THEN [msg |-> m, wire |-> w, ret |-> TPT_EMPTY, log |-> <<rd1>>]
        ELSE
        LET m1 == [m EXCEPT !.hdr = Overwrite(m.hdr, SubSeq(w, 1, bytes1))]
            w1 == SubSeq(w, bytes1 + 1, Len(w))
            m2 == resize(m1, body_len(m1))
            bytes2 == SSL_read(body_len(m2), w1, o2, closed)
            rd2 == [what |-> "body", req |-> body_len(m2),
                    cap |-> Len(m2.body), res |-> bytes2]
            m3 == IF bytes2 > 0
                  THEN [m2 EXCEPT !.body =
                            Overwrite(m2.body, SubSeq(w1, 1, bytes2))]
                  ELSE m2
            w2 == IF bytes2 > 0 THEN SubSeq(w1, bytes2 + 1, Len(w1)) ELSE w1
        IN  [msg |-> m3, wire |-> w2, ret |-> IntRet(bytes2),
             log |-> <<rd1, rd2>>]

\* what may lie in the n bytes in front of the message buffer: any byte
\* value (the same in all of them)
Junk(n) == IF n > 0 THEN {[i \in 1..n |-> b] : b \in Byte} ELSE {<<>>}

\* send that hands data() to every SSL_write, without the offset
Chunk_noOffset(m, sent, junk) ==
    IF sent >= 0
    THEN SubSeq(data(m), 1, data_len(m) - sent)
    ELSE junk \o SubSeq(data(m), 1, data_len(m))

\* the bytes send hands to SSL_write: data() + sent, len - sent of them;
\* junk stands for the bytes in front of the buffer when sent is negative
Chunk(m, sent, junk) ==
    IF sent >= 0
    THEN SubSeq(data(m), sent + 1, data_len(m))
    ELSE junk \o SubSeq(data(m), 1, data_len(m))

\* one pass of the while loop of ssl_transport::send, SSL_write having
\* returned bytes for chunk
sendWrite(m, sent, bytes, chunk) ==
    LET wr == [off |-> sent, req |-> data_len(m) - sent, res |-> bytes,
               bytes |-> IF bytes > 0 THEN SubSeq(chunk, 1, bytes) ELSE <<>>]
    IN  IF bytes = -1
        THEN [sent |-> sent, done |-> TRUE, ret |-> IntRet(-1), wr |-> wr]
        ELSE LET s1 == sent + bytes
             IN  [sent |-> s1, done |-> ~(s1 < data_len(m)),
                  ret |-> IF s1 < data_len(m) THEN NoRet ELSE IntRet(s1),
                  wr |-> wr]

\* what SSL_write returns when asked for req bytes: the number of bytes
\* it accepted, or -1 for an error
WriteResults(req, zeros) ==
    {-1} \cup 1..req \cup (IF zeros < MaxZeroWrites THEN {0} ELSE {})

\* SSL_write is documented to report an error by any result < 0
BadWriteResults(bads) == IF bads < MaxBadWrites THEN {-2} ELSE {}

----------------------------------------------------------------------------
(* Initial states of the channel *)

NoWrite == [off |-> 0, req |-> 0, res |-> 0, bytes |-> <<>>]

NoStray == [f |-> "none", ssl |-> NULL, op |-> "none", ret |-> 0]

\* message objects a caller may hand to recv: any body size, zeroed
InitMsgs == {resize(frame(<<>>), n) : n \in 0..MaxBody}

ChanIdle ==
    /\ smsg = frame(<<>>)
    /\ spc = "idle"
    /\ bytes_sent = 0
    /\ sret = NoRet
    /\ lastWrite = NoWrite
    /\ accepted = <<>>
    /\ nZero = 0
    /\ nBad = 0
    /\ wire = <<>>
    /\ peerClosed = FALSE
    /\ rret = NoRet
    /\ rlog = <<>>
    /\ got = <<>>
    /\ stray = NoStray

\* the transport after init(TPT_CLIENT) has returned 0
Established ==
    initRun(TPT_CLIENT, [fail |-> "none", bad |-> {}, hs |-> 1],
            [m_ctx |-> NULL, m_ssl |-> NULL, tcp |-> "closed",
             nonblock |-> FALSE, nCtx |-> 0, nSsl |-> 0,
             ctxFreed |-> [i \in Ids |-> 0], sslShut |-> [i \in Ids |-> 0],
             sslFreed |-> [i \in Ids |-> 0]])

LifeEstablished ==
    /\ alive = TRUE
    /\ m_opt_host = sock_get_ip
    /\ m_opt_port = DefaultPort
    /\ cfgAtInit = [set |-> TRUE, host |-> sock_get_ip, port |-> DefaultPort]
    /\ optArg = NoOpt
    /\ m_ctx = Established.t.m_ctx
    /\ m_ssl = Established.t.m_ssl
    /\ tcp = Established.t.tcp
    /\ nonblock = Established.t.nonblock
    /\ nCtx = Established.t.nCtx
    /\ nSsl = Established.t.nSsl
    /\ ctxFreed = Established.t.ctxFreed
    /\ sslShut = Established.t.sslShut
    /\ sslFreed = Established.t.sslFreed
    /\ calls = Established.calls
    /\ lastOp = [op |-> "init", type |-> TPT_CLIENT, ret |-> Established.ret,
                 prev |-> "none"]
    /\ nOps = 1

----------------------------------------------------------------------------
(* Calls on the channel *)

\* the transport is ESTABLISHED: the last of init and close was an init
\* that returned 0
IsEstablished == lastOp.op = "init" /\ lastOp.ret = 0

\* the SSL_read or SSL_write named f goes through m_ssl as it is: neither
\* send nor recv looks at m_ssl or at what init returned
Through(f) ==
    IF IsEstablished THEN stray
    ELSE [f |-> f, ssl |-> m_ssl, op |-> lastOp.op, ret |-> lastOp.ret]

\* send(msg) is called: len = msg.data_len(), bytes_sent = 0
send_begin(m) ==
    /\ alive
    /\ spc = "idle"
    /\ ~peerClosed
    /\ smsg' = m
    /\ bytes_sent' = 0
    /\ spc' = "loop"
    /\ sret' = NoRet
    /\ lastWrite' = NoWrite
    /\ accepted' = <<>>
    /\ nZero' = 0
    /\ nBad' = 0
    /\ UNCHANGED <<wire, peerClosed, lifeVars, recvVars, stray, optVars>>

\* one SSL_write of the loop, returning bytes; send returns when the loop
\* ends.  A session that is not established accepts no bytes.
send_write(bytes) ==
    /\ alive
    /\ spc = "loop"
    /\ bytes_sent < data_len(smsg)
    /\ IsEstablished \/ bytes = -1
    /\ \E junk \in Junk(-bytes_sent) :
          LET r == sendWrite(smsg, bytes_sent, bytes,
                             Chunk(smsg, bytes_sent, junk))
          IN  /\ bytes_sent' = r.sent
              /\ spc' = IF r.done THEN "done" ELSE "loop"
              /\ sret' = r.ret
              /\ lastWrite' = r.wr
              /\ accepted' = accepted \o r.wr.bytes
              /\ nZero' = IF bytes = 0 THEN nZero + 1 ELSE nZero
              /\ nBad' = IF bytes < -1 THEN nBad + 1 ELSE nBad
              /\ wire' = wire \o r.wr.bytes
    /\ stray' = Through("SSL_write")
    /\ UNCHANGED <<smsg, peerClosed, lifeVars, recvVars, optVars>>

\* SSL_write(m_ssl, ...) with m_ssl NULL dereferences a null pointer: the
\* call may also end the process instead of returning
send_fault ==
    /\ alive
    /\ spc = "loop"
    /\ bytes_sent < data_len(smsg)
    /\ m_ssl = NULL
    /\ alive' = FALSE
    /\ stray' = Through("SSL_write")
    /\ UNCHANGED <<m_ctx, m_ssl, tcp, nonblock, nCtx, nSsl, ctxFreed,
                   sslShut, sslFreed, calls, lastOp, nOps, sendVars,
                   recvVars, optVars>>

\* the sending end closes its transport
peer_close ==
    /\ spc \in {"idle", "done"}
    /\ ~peerClosed
    /\ peerClosed' = TRUE
    /\ UNCHANGED <<smsg, spc, bytes_sent, sret, lastWrite, accepted, nZero,
                   nBad, wire, lifeVars, recvVars, stray, optVars>>

\* recv(msg) is called on the receiving end.  A session that is not
\* established has nothing to read: its header read fails.
recv ==
    /\ alive
    /\ \E o1 \in 0..HeaderLen, o2 \in ReadOracles :
          /\ IsEstablished \/ o1 = 0
          /\ LET r == recvRun(rmsg, wire, peerClosed, o1, o2)
             IN  /\ rmsg' = r.msg
                 /\ wire' = r.wire
                 /\ rret' = r.ret
                 /\ rlog' = r.log
                 /\ got' = IF r.ret.kind = "int" /\
                              (r.ret.n > 0 \/
                               (r.ret.n = 0 /\ r.log[2].req = 0))
                           THEN Append(got, [n |-> r.ret.n,
                                             body |-> r.msg.body,
                                             blen |-> body_len(r.msg)])
                           ELSE got
    /\ rprev' = rmsg
    /\ stray' = Through("SSL_read")
    /\ UNCHANGED <<smsg, spc, bytes_sent, sret, lastWrite, accepted, nZero,
                   nBad, peerClosed, lifeVars, optVars>>

\* SSL_read(m_ssl, ...) with m_ssl NULL: as for SSL_write
recv_fault ==
    /\ alive
    /\ m_ssl = NULL
    /\ alive' = FALSE
    /\ stray' = Through("SSL_read")
    /\ UNCHANGED <<m_ctx, m_ssl, tcp, nonblock, nCtx, nSsl, ctxFreed,
                   sslShut, sslFreed, calls, lastOp, nOps, sendVars,
                   recvVars, optVars>>

----------------------------------------------------------------------------
(* Specifications *)

Init ==
    /\ LifeInit
    /\ ChanIdle
    /\ rmsg = frame(<<>>)
    /\ rprev = rmsg

Next ==
    \/ \E type \in Types : init(type)
    \/ close
    \/ destroy

Spec == Init /\ [][Next]_vars

InitChan ==
    /\ LifeEstablished
    /\ ChanIdle
    /\ rmsg \in InitMsgs
    /\ rprev = rmsg

NextChan ==
    \/ \E B \in Bodies : send_begin(frame(B))
    \/ \E bytes \in -1..(HeaderLen + MaxBody) :
          /\ bytes \in WriteResults(data_len(smsg) - bytes_sent, nZero)
          /\ send_write(bytes)
    \/ peer_close
    \/ recv

SpecChan == InitChan /\ [][NextChan]_vars

\* the sending end alone, SSL_write returning anything it is documented to
NextSend ==
    \/ \E B \in Bodies : send_begin(frame(B))
    \/ \E bytes \in -1..(HeaderLen + MaxBody + 2 * MaxBadWrites) :
          /\ bytes \in WriteResults(data_len(smsg) - bytes_sent, nZero)
          /\ send_write(bytes)
    \/ \E bytes \in BadWriteResults(nBad) : send_write(bytes)

InitSend ==
    /\ LifeEstablished
    /\ ChanIdle
    /\ rmsg = frame(<<>>)
    /\ rprev = rmsg

SpecSend == InitSend /\ [][NextSend]_vars

\* init, close, send and recv called in any order on one transport
\* (send of a message with an empty body, every SSL_write accepting bytes
\* or failing)
NextUse ==
    \/ \E type \in Types : nOps < MaxUseOps /\ init(type)
    \/ nOps < MaxUseOps /\ close
    \/ send_begin(frame(<<>>))
    \/ \E bytes \in -1..HeaderLen :
          /\ bytes \in WriteResults(data_len(smsg) - bytes_sent,
                                    MaxZeroWrites)
          /\ send_write(bytes)
    \/ send_fault
    \/ recv
    \/ recv_fault

SpecUse == Init /\ [][NextUse]_vars

\* the options of a transport that is initialised once
NextOpt ==
    \/ \E type \in Types : ~cfgAtInit.set /\ init(type)
    \/ \E opt \in Opts, value \in OptValues : setopt(opt, value)

SpecOpt == Init /\ [][NextOpt]_vars

----------------------------------------------------------------------------
(* Properties *)

\* names of the calls in log that are among fs, in order
Named(log, fs) ==
    LET sel == SelectSeq(log, LAMBDA c : c.f \in fs)
    IN  [i \in 1..Len(sel) |-> sel[i].f]

IsPrefix(p, q) == Len(p) <= Len(q) /\ p = SubSeq(q, 1, Len(p))

StreamCalls == {"m_tcp.connect", "m_tcp.bind", "m_tcp.accept",
                "SSL_connect", "SSL_accept"}
MethodCalls == {"TLSv1_client_method", "TLSv1_server_method"}
CreateCalls == {"SSL_CTX_new", "SSL_new"}

\* C1: close() is idempotent.  Whatever init and close calls came before,
\* every session is shut down at most once and freed at most once, every
\* context is freed at most once, and a close() (or the destructor) that
\* directly follows a close() frees nothing and changes nothing: it only
\* calls the stream's own close.
C1_CloseIdempotent ==
    /\ [](\A i \in Ids : sslShut[i] <= 1 /\ sslFreed[i] <= 1 /\ ctxFreed[i] <= 1)
    /\ [][(lastOp.op = "close" /\ lastOp'.op \in {"close", "destroy"})
            => /\ UNCHANGED <<m_ctx, m_ssl, tcp, nonblock, nCtx, nSsl,
                              ctxFreed, sslShut, sslFreed>>
               /\ calls' = <<Call("m_tcp.close", 0)>>]_vars

\* a second close() in a row, after the first one freed a session and a
\* context
C1_Witness ==
    /\ lastOp.op = "close"
    /\ lastOp.prev = "close"
    /\ \E i \in Ids : sslFreed[i] = 1 /\ sslShut[i] = 1
    /\ \E i \in Ids : ctxFreed[i] = 1

\* C2: when init returns a failure, the transport holds no context, no
\* session and no open or bound stream.
C2_FailedInitHoldsNothing ==
    (lastOp.op = "init" /\ lastOp.ret < 0)
        => (m_ctx = NULL /\ m_ssl = NULL /\ tcp = "closed")

\* C3: init returns success only if the handshake call of its role
\* returned 1 (success); a result of 0 or below makes init fail.
C3_SuccessNeedsHandshake ==
    (lastOp.op = "init" /\ lastOp.ret = 0)
        => \E i \in DOMAIN calls :
              calls[i].f \in {"SSL_connect", "SSL_accept"} /\ calls[i].r = 1

\* C4: init(TPT_CLIENT) makes no stream or handshake call but
\* m_tcp.connect then SSL_connect, with the client method; init(TPT_SERVER)
\* none but m_tcp.bind, m_tcp.accept, SSL_accept, with the server method; a
\* successful init has made all of its role's calls; with any other type
\* init fails without creating a context or a session and without a stream
\* call.
C4_RoleConsistent ==
    lastOp.op = "init" =>
        /\ lastOp.type = TPT_CLIENT =>
              /\ IsPrefix(Named(calls, StreamCalls),
                          <<"m_tcp.connect", "SSL_connect">>)
              /\ Named(calls, MethodCalls) = <<"TLSv1_client_method">>
        /\ lastOp.type = TPT_SERVER =>
              /\ IsPrefix(Named(calls, StreamCalls),
                          <<"m_tcp.bind", "m_tcp.accept", "SSL_accept">>)
              /\ Named(calls, MethodCalls) = <<"TLSv1_server_method">>
        /\ lastOp.ret = 0 =>
              Len(Named(calls, StreamCalls)) =
                  (IF lastOp.type = TPT_CLIENT THEN 2 ELSE 3)
        /\ lastOp.type \notin {TPT_CLIENT, TPT_SERVER} =>
              /\ lastOp.ret < 0
              /\ Named(calls, StreamCalls \cup MethodCalls \cup CreateCalls)
                     = <<>>

\* an init(TPT_SERVER) that went through bind, accept and the handshake
C4_Witness ==
    /\ lastOp.op = "init"
    /\ lastOp.type = TPT_SERVER
    /\ lastOp.ret = 0
    /\ Named(calls, StreamCalls) = <<"m_tcp.bind", "m_tcp.accept", "SSL_accept">>

\* C5: a recv that returns a positive number of bytes has read the whole
\* header (headerLen bytes) and the whole body: the number returned is the
\* body length the header declares.
C5_RecvWholeMessage ==
    (rret.kind = "int" /\ rret.n > 0)
        => /\ rlog[1].res = HeaderLen
           /\ rlog[2].res = rlog[2].req
           /\ rret.n = body_len(rmsg)

\* C6: round trip.  The first recv that returns a body returns the body
\* that was sent, with its length; and once send has returned the full
\* length and the receiver has read everything off the stream, some recv
\* has returned it.
C6_RoundTrip ==
    /\ got # <<>> =>
          got[1] = [n |-> Len(smsg.body), body |-> smsg.body,
                    blen |-> Len(smsg.body)]
    /\ (spc = "done" /\ sret = IntRet(data_len(smsg)) /\ wire = <<>>)
          => got # <<>>

NoWriteError == nBad = 0 /\ lastWrite.res >= 0

\* C7: as long as no SSL_write has reported an error, every write starts at
\* the offset of the bytes accepted so far and asks for the rest, the bytes
\* accepted are a prefix of the serialized message, the count never exceeds
\* data_len, and send returns data_len with the whole message accepted.
C7_SendWritesAll ==
    NoWriteError =>
        /\ bytes_sent = Len(accepted)
        /\ bytes_sent <= data_len(smsg)
        /\ accepted = SubSeq(data(smsg), 1, bytes_sent)
        /\ lastWrite.req > 0 =>
              /\ lastWrite.off + lastWrite.res = bytes_sent
              /\ lastWrite.req = data_len(smsg) - lastWrite.off
              /\ lastWrite.bytes = SubSeq(data(smsg), lastWrite.off + 1,
                                          lastWrite.off + lastWrite.res)
        /\ spc = "done" =>
              /\ sret = IntRet(data_len(smsg))
              /\ accepted = data(smsg)

\* a send that needed several partial writes has returned
C7_Witness ==
    /\ spc = "done"
    /\ NoWriteError
    /\ lastWrite.off > 0
    /\ lastWrite.res < data_len(smsg)
    /\ body_len(smsg) > 0
    /\ sret = IntRet(data_len(smsg))

\* C8: once an SSL_write has returned a negative result, send has returned
\* failure, that write was its last one, and the result was not added to
\* bytes_sent.
C8_WriteErrorAborts ==
    (nBad > 0 \/ lastWrite.res < 0)
        => /\ spc = "done"
           /\ sret = IntRet(-1)
           /\ lastWrite.res < 0
           /\ bytes_sent = lastWrite.off

\* C9: a header read that returns 0 makes recv return TPT_CLOSE, one that
\* returns a negative result makes it return TPT_EMPTY; in both cases no
\* body read is issued and the message is left as it was.
C9_HeaderReadFails ==
    rlog # <<>> =>
        /\ rlog[1].res = 0 =>
              (rret = TPT_CLOSE /\ Len(rlog) = 1 /\ rmsg = rprev)
        /\ rlog[1].res < 0 =>
              (rret = TPT_EMPTY /\ Len(rlog) = 1 /\ rmsg = rprev)

\* a recv that found the connection closed, after a message was received
C9_Witness ==
    /\ rlog # <<>>
    /\ rlog[1].res = 0
    /\ rret = TPT_CLOSE
    /\ got # <<>>

\* C10: the body read of recv asks for exactly the size the body buffer has
\* after the resize, and that is the body length of the header just read,
\* whatever size the buffer had before.
C10_BodyReadFitsBuffer ==
    Len(rlog) = 2 =>
        /\ rlog[2].req = rlog[2].cap
        /\ rlog[2].req = body_len(rmsg)
        /\ rlog[2].cap = Len(rmsg.body)

\* a body read into a buffer that was smaller before the call
C10_Witness ==
    /\ Len(rlog) = 2
    /\ Len(rprev.body) < rlog[2].req
    /\ rlog[2].res > 0

\* position of the first call named f in log, 0 if there is none
Pos(log, f) ==
    IF \E i \in DOMAIN log : log[i].f = f
    THEN CHOOSE i \in DOMAIN log :
            log[i].f = f /\ \A j \in 1..(i - 1) : log[j].f # f
    ELSE 0

HandshakeCalls == {"SSL_connect", "SSL_accept"}

\* C11: the stream is switched to non-blocking only after the handshake
\* has succeeded: the switch comes after every stream call and after a
\* handshake call that returned 1 (success); an init that returns success
\* has made the switch, an init that returns failure has not.
C11_NonBlockingAfterHandshake ==
    lastOp.op = "init" =>
        LET sw == Pos(calls, "sock_set_blocking(false)")
        IN  /\ sw > 0 =>
                  /\ \A i \in DOMAIN calls :
                        calls[i].f \in StreamCalls => i < sw
                  /\ \E i \in 1..sw :
                        calls[i].f \in HandshakeCalls /\ calls[i].r = 1
            /\ lastOp.ret = 0 => (sw > 0 /\ nonblock)
            /\ lastOp.ret < 0 => sw = 0

LiveCtx == {i \in 1..nCtx : ctxFreed[i] = 0}
LiveSsl == {i \in 1..nSsl : sslFreed[i] = 0}

\* C12: at most one context and at most one session created by the
\* transport are live at any time, and none is live after close().
C12_OneContextOneSession ==
    /\ Cardinality(LiveCtx) <= 1
    /\ Cardinality(LiveSsl) <= 1
    /\ lastOp.op \in {"close", "destroy"} => (LiveCtx = {} /\ LiveSsl = {})

\* C15: close() calls, in this order, SSL_shutdown and SSL_free when a
\* session exists, SSL_CTX_free when a context exists, and m_tcp.close
\* always and last.
C15_TeardownOrder ==
    [][lastOp'.op \in {"close", "destroy"} =>
          calls' = (IF m_ssl # NULL
                    THEN <<Call("SSL_shutdown", 0), Call("SSL_free", 0)>>
                    ELSE <<>>)
                   \o (IF m_ctx # NULL THEN <<Call("SSL_CTX_free", 0)>>
                                       ELSE <<>>)
                   \o <<Call("m_tcp.close", 0)>>]_vars

\* a close() that tore down a session, a context and the stream
C15_Witness ==
    /\ lastOp.op = "close"
    /\ Named(calls, {"SSL_shutdown", "SSL_free", "SSL_CTX_free", "m_tcp.close"})
           = <<"SSL_shutdown", "SSL_free", "SSL_CTX_free", "m_tcp.close">>

\* C17: every recv starts at a message boundary: between recv calls, once
\* the receiver has taken the header of the message off the stream it has
\* taken the whole body too, never a header without its body.
C17_RecvAtMessageBoundary ==
    LET consumed == Len(accepted) - Len(wire)
    IN  consumed >= HeaderLen => consumed = data_len(smsg)

\* C18: every pass of the send loop that neither returns nor had its write
\* accept 0 bytes moves bytes_sent forward, towards data_len; so send
\* returns after finitely many writes unless writes keep accepting 0 bytes.
C18_SendProgress ==
    [][(spc = "loop" /\ spc' = "loop" /\ nZero' = nZero)
          => (bytes_sent' > bytes_sent /\ bytes_sent' < data_len(smsg))]_vars

\* what the call named f returned in log (f is called at most once)
Ret(log, f) == log[Pos(log, f)].r

Called(log, f) == Pos(log, f) > 0

\* C16: the identity load installs the certificate, then the key, then
\* checks that they match; it stops at the first step that fails and logs
\* that step's error, a bad certificate taking precedence over a bad key;
\* the match check runs only after both installs succeeded; the load
\* succeeds only when all three steps pass, and when it fails init fails
\* without creating a session and without a stream call.
C16_IdentityLoad ==
    (lastOp.op = "init" /\ Called(calls, "PEM_read_bio_X509")) =>
        LET certIn == Called(calls, "SSL_CTX_use_certificate")
            keyIn == Called(calls, "SSL_CTX_use_RSAPrivateKey")
            chk == Called(calls, "SSL_CTX_check_private_key")
            certOk == certIn /\ Ret(calls, "SSL_CTX_use_certificate") = 1
            keyOk == keyIn /\ Ret(calls, "SSL_CTX_use_RSAPrivateKey") = 1
            chkOk == chk /\ Ret(calls, "SSL_CTX_check_private_key") = 1
            errors == Named(calls, {LogBadCert, LogBadKey, LogMismatch})
        IN  /\ IsPrefix(Named(calls, {"SSL_CTX_use_certificate",
                                      "SSL_CTX_use_RSAPrivateKey",
                                      "SSL_CTX_check_private_key"}),
                        <<"SSL_CTX_use_certificate",
                          "SSL_CTX_use_RSAPrivateKey",
                          "SSL_CTX_check_private_key">>)
            /\ certIn
            /\ keyIn <=> certOk
            /\ chk <=> (certOk /\ keyOk)
            /\ errors = (IF ~certOk THEN <<LogBadCert>>
                         ELSE IF ~keyOk THEN <<LogBadKey>>
                         ELSE IF ~chkOk THEN <<LogMismatch>>
                         ELSE <<>>)
            /\ Ret(calls, "PEM_read_bio_X509") = 0 => errors = <<LogBadCert>>
            /\ Called(calls, "SSL_new") => (certOk /\ keyOk /\ chkOk)
            /\ ~(certOk /\ keyOk /\ chkOk) =>
                  /\ lastOp.ret < 0
                  /\ Named(calls, StreamCalls \cup {"SSL_new"}) = <<>>

\* an identity load with a bad certificate and a bad key: the certificate
\* is reported
C16_Witness ==
    /\ lastOp.op = "init"
    /\ Called(calls, "PEM_read_bio_X509")
    /\ Ret(calls, "PEM_read_bio_X509") = 0
    /\ Ret(calls, "PEM_read_bio_RSAPrivateKey") = 0
    /\ Named(calls, {LogBadCert, LogBadKey, LogMismatch}) = <<LogBadCert>>

\* the stages of init, each named by its (first) library or stream call
StageOrder(type) ==
    IF type = TPT_CLIENT
    THEN <<"SSL_CTX_new", "SSL_CTX_use_certificate", "SSL_new",
           "m_tcp.connect", "SSL_connect">>
    ELSE IF type = TPT_SERVER
    THEN <<"SSL_CTX_new", "SSL_CTX_use_certificate", "SSL_new",
           "m_tcp.bind", "m_tcp.accept", "SSL_accept">>
    ELSE <<>>

StageFns == {"SSL_CTX_new", "SSL_CTX_use_certificate", "SSL_new",
             "m_tcp.connect", "m_tcp.bind", "m_tcp.accept",
             "SSL_connect", "SSL_accept"}

\* the stage named f was attempted in log and succeeded
StageOk(log, f) ==
    IF f = "SSL_CTX_use_certificate"
    THEN \E i \in DOMAIN log :
            log[i].f = "SSL_CTX_check_private_key" /\ log[i].r = 1
    ELSE \E i \in DOMAIN log :
            /\ log[i].f = f
            /\ log[i].r = (IF f \in {"m_tcp.connect", "m_tcp.bind",
                                     "m_tcp.accept"} THEN 0 ELSE 1)

\* C19: init runs its stages in the order context, identity, session,
\* connect (or bind, accept), handshake; each at most once, each only after
\* all earlier ones succeeded; it returns success only after all succeeded.
C19_StageOrder ==
    lastOp.op = "init" =>
        LET st == Named(calls, StageFns)
            order == StageOrder(lastOp.type)
        IN  /\ IsPrefix(st, order)
            /\ \A k \in 1..(Len(st) - 1) : StageOk(calls, st[k])
            /\ lastOp.ret = 0 =>
                  (st = order /\ \A k \in 1..Len(st) : StageOk(calls, st[k]))

\* C20: when the header read declares a body length of 0, recv resizes the
\* body to length 0, its zero-length body read returns 0, and recv returns
\* 0.
C20_ZeroLengthBody ==
    (Len(rlog) = 2 /\ rlog[1].res = HeaderLen /\ rlog[2].req = 0)
        => /\ rmsg.body = <<>>
           /\ rlog[2].res = 0
           /\ rret = IntRet(0)

\* C13: send and recv issue SSL_write and SSL_read only while the transport
\* is established: no such call is made before init, after an init that
\* failed, or after close.
C13_IoOnlyEstablished == stray.f = "none"

\* C14: once init has been called, setopt changes neither the host nor the
\* port: they keep the values they had when init was called; before init a
\* setopt call sets exactly the option it names (the port to the number its
\* value spells) and leaves the other option unchanged.
C14_SetOptionBeforeInitOnly ==
    /\ [](cfgAtInit.set => /\ m_opt_host = cfgAtInit.host
                           /\ m_opt_port = cfgAtInit.port)
    /\ [][(optArg'.n # optArg.n /\ ~cfgAtInit.set) =>
            /\ m_opt_host' = IF optArg'.opt = SSL_OPT_HOST
                             THEN optArg'.value ELSE m_opt_host
            /\ m_opt_port' = IF optArg'.opt = SSL_OPT_PORT
                             THEN atoi(optArg'.value) ELSE m_opt_port]_vars

====
